---------------------------- MODULE Spec2Model ----------------------------
(***************************************************************************)
(* heif2png (src/main.go): resolve the grid descriptor of a HEIF file,     *)
(* extract its tiles, decode them on a pool of goroutines that draw into   *)
(* one shared canvas, rotate the canvas and encode it to the destination.  *)
(*                                                                         *)
(* Texts are sequences of tokens.  A token is one byte ("=", a digit, a   *)
(* sign, a white-space byte) or a run of letters (a word such as "cols").  *)
(* A pixel of tile i at (px, py) is the triple <<i, px, py>>; the          *)
(* transparent pixel of a fresh canvas is <<0, 0, 0>>.                     *)
(***************************************************************************)
EXTENDS Integers, Sequences, FiniteSets, TLC

\* ------------------------------------------------------------------ bounds
MaxTiles == 4

MaxThreads == 2

MaxLines == 3

\* ------------------------------------------------------- program constants
\* the largest value of the bitSize 32 that heifGetInfo passes to ParseInt
MaxInt32 == 2147483647

\* ---------------------------------------------------------------- helpers
Range(s) == {s[k] : k \in 1..Len(s)}

Min2(a, b) == IF a < b THEN a ELSE b

Digit == {"0", "1", "2", "3", "4", "5", "6", "7", "8", "9"}

DigitVal(d) ==
  CASE d = "0" -> 0 [] d = "1" -> 1 [] d = "2" -> 2 [] d = "3" -> 3
    [] d = "4" -> 4 [] d = "5" -> 5 [] d = "6" -> 6 [] d = "7" -> 7
    [] d = "8" -> 8 [] d = "9" -> 9

\* unicode.IsSpace restricted to the bytes of the model
Space == {" ", "\t", "\r", "\n"}

\* ------------------------------------------------------------ HeifInfo
HeifInfo(w, h, rot, t, r, c) ==
  [Width |-> w, Height |-> h, Rotation |-> rot, Tiles |-> t, Rows |-> r, Cols |-> c]

\* the zero value of the named result `info HeifInfo`
ZeroInfo == HeifInfo(0, 0, 0, 0, 0, 0)

\* ------------------------------------------------- heifGetInfo: splitInt
\* bytes.IndexByte: position of the first b in s, 0 when there is none
\* (the code's -1)
IndexByte(s, b) ==
  IF b \in Range(s) THEN CHOOSE k \in 1..Len(s) : s[k] = b /\ \A j \in 1..(k-1) : s[j] # b
  ELSE 0

RECURSIVE TrimLeft(_)
TrimLeft(s) == IF s # <<>> /\ Head(s) \in Space THEN TrimLeft(Tail(s)) ELSE s

RECURSIVE TrimRight(_)
TrimRight(s) ==
  IF s # <<>> /\ s[Len(s)] \in Space THEN TrimRight(SubSeq(s, 1, Len(s) - 1)) ELSE s

TrimSpace(s) == TrimRight(TrimLeft(s))

\* the negated value of a digit string, computed without leaving the int32
\* range; 1 when the value does not fit (strconv's ErrRange)
RECURSIVE NegValue(_, _)
NegValue(ds, acc) ==
  IF ds = <<>> THEN acc
  ELSE LET d == DigitVal(Head(ds))
           cut == MaxInt32 \div 10
           last == (MaxInt32 % 10) + 1
       IN IF acc < 0 - cut \/ (acc = 0 - cut /\ d > last) THEN 1
          ELSE NegValue(Tail(ds), acc * 10 - d)

\* strconv.ParseInt(s, 10, 32): [err, val]
ParseInt(s) ==
  LET neg == s # <<>> /\ Head(s) = "-"
      signed == s # <<>> /\ Head(s) \in {"+", "-"}
      ds == IF signed THEN Tail(s) ELSE s
      bad == [err |-> TRUE, val |-> 0]
  IN IF ds = <<>> \/ ~(Range(ds) \subseteq Digit) THEN bad
     ELSE LET m == NegValue(ds, 0)
          IN IF m = 1 THEN bad
             ELSE IF ~neg /\ m = (0 - MaxInt32) - 1 THEN bad
             ELSE [err |-> FALSE, val |-> IF neg THEN m ELSE 0 - m]

\* a value that does not parse reported as 0 under the line's name
SplitIntZeroOnError(line) ==
  LET pos == IndexByte(line, "=")
  IN IF pos = 0 THEN [nil |-> TRUE, name |-> <<>>, val |-> 0]
     ELSE LET p == ParseInt(TrimSpace(SubSeq(line, pos + 1, Len(line))))
          IN [nil |-> FALSE, name |-> SubSeq(line, 1, pos - 1),
              val |-> IF p.err THEN 0 ELSE p.val]

\* splitInt: [nil, name, val]; nil is the code's `return nil, 0`
SplitInt(line) ==
  LET pos == IndexByte(line, "=")
      none == [nil |-> TRUE, name |-> <<>>, val |-> 0]
  IN IF pos = 0 THEN none
     ELSE LET p == ParseInt(TrimSpace(SubSeq(line, pos + 1, Len(line))))
          IN IF p.err THEN none
             ELSE [nil |-> FALSE, name |-> SubSeq(line, 1, pos - 1), val |-> p.val]

\* one turn of the line loop of heifGetInfo on a complete line
ApplyLine(inf, line) ==
  LET s == SplitInt(line)
  IN IF s.nil THEN inf
     ELSE IF s.name = <<"width">> THEN [inf EXCEPT !.Width = s.val]
     ELSE IF s.name = <<"height">> THEN [inf EXCEPT !.Height = s.val]
     ELSE IF s.name = <<"rotation">> THEN [inf EXCEPT !.Rotation = s.val]
     ELSE IF s.name = <<"tiles">> THEN [inf EXCEPT !.Tiles = s.val]
     ELSE IF s.name = <<"rows">> THEN [inf EXCEPT !.Rows = s.val]
     ELSE IF s.name = <<"cols">> THEN [inf EXCEPT !.Cols = s.val]
     ELSE inf

\* the rows left as reported
FixupInfoColsOnly(inf) == IF inf.Tiles = 1 THEN [inf EXCEPT !.Cols = 1] ELSE inf

\* main, lines 106-109
FixupInfo(inf) == IF inf.Tiles = 1 THEN [inf EXCEPT !.Cols = 1, !.Rows = 1] ELSE inf

\* ------------------------------------------------------------ the canvas
Transparent == <<0, 0, 0>>

\* the absent image (a nil image.Image, or a raster not yet produced)
NoImg == [w |-> 0, h |-> 0, tile |-> 0]

Points(w, h) == (0..(w - 1)) \X (0..(h - 1))

\* width and height exchanged
NewRGBATransposed(w, h) == [w |-> h, h |-> w, pix |-> [p \in Points(h, w) |-> Transparent]]

\* image.NewRGBA(image.Rect(0, 0, w, h)): every pixel transparent
NewRGBA(w, h) == [w |-> w, h |-> h, pix |-> [p \in Points(w, h) |-> Transparent]]

\* the canvas or raster that does not exist yet
NoCanvas == [w |-> 0, h |-> 0, pix |-> <<>>]

\* column and row exchanged
QueueItemSwapped(f, i, cols) == [hevcFile |-> f, x |-> i \div cols, y |-> i % cols]

\* the row taken from the remainder as well
QueueItemRowAsColumn(f, i, cols) == [hevcFile |-> f, x |-> i % cols, y |-> i % cols]

\* the QueueItem of the file at 0-based position i (cols # 0)
QueueItem(f, i, cols) == [hevcFile |-> f, x |-> i % cols, y |-> i \div cols]

\* the cell index taken for the pixel offset
DestRectUnscaled(f, img) ==
  [minx |-> f.x, miny |-> f.y, maxx |-> img.w + f.x, maxy |-> img.h + f.y]

\* lines 154-158: the bounds of the decoded image moved to the job's cell
DestRect(f, img) ==
  LET minx == f.x * img.w
      miny == f.y * img.h
  IN [minx |-> minx, miny |-> miny, maxx |-> img.w + minx, maxy |-> img.h + miny]

\* image.Point.In(rect)
InRect(p, rect) ==
  /\ rect.minx <= p[1] /\ p[1] < rect.maxx
  /\ rect.miny <= p[2] /\ p[2] < rect.maxy

\* the points of the canvas that draw.Draw writes for rect (clipped to the canvas)
RectPoints(canvas, rect) == {p \in DOMAIN canvas.pix : InRect(p, rect)}

\* draw.Draw(dstImg, rect, img, image.Point{}, draw.Src) where the writes to
\* the points of `lost` are overwritten by a concurrent draw of another worker
DrawSrc(canvas, rect, img, lost) ==
  [canvas EXCEPT !.pix =
     [p \in DOMAIN canvas.pix |->
        IF InRect(p, rect) /\ p \notin lost
        THEN <<img.tile, p[1] - rect.minx, p[2] - rect.miny>>
        ELSE canvas.pix[p]]]

\* imaging.Rotate for the angles the model uses: 0 after reduction to [0,360)
\* keeps the pixels, 90 turns the image counter-clockwise
Rotate90(canvas) ==
  [w |-> canvas.h, h |-> canvas.w,
   pix |-> [p \in Points(canvas.h, canvas.w) |-> canvas.pix[<<canvas.w - 1 - p[2], p[1]>>]]]

ImagingRotate(canvas, angle) ==
  LET a == angle % 360
  IN IF a = 90 THEN Rotate90(canvas)
     ELSE IF a = 180 THEN Rotate90(Rotate90(canvas))
     ELSE IF a = 270 THEN Rotate90(Rotate90(Rotate90(canvas)))
     ELSE canvas

\* a quarter turn too many
RotateStageQuarter(canvas, rotation) == ImagingRotate(canvas, rotation + 90)

\* lines 168-170
RotateStage(canvas, rotation) ==
  IF rotation # 0 THEN ImagingRotate(canvas, rotation) ELSE canvas

\* strings.ToLower(filepath.Ext(dstFile)) on the extensions of the model
ToLower(ext) ==
  CASE ext = ".PNG" -> ".png"
    [] ext = ".JPG" -> ".jpg"
    [] ext = ".Jpeg" -> ".jpeg"
    [] OTHER -> ext

\* the encoder the switch of lines 177-192 selects: "png", "jpeg" or "none"
EncoderFor(ext) ==
  LET e == ToLower(ext)
  IN IF e = ".png" THEN "png"
     ELSE IF e = ".jpg" \/ e = ".jpeg" THEN "jpeg"
     ELSE "none"

\* ------------------------------------------------------------ the inputs
\* the decimal digits of n >= 0
RECURSIVE Digits(_)
Digits(n) == IF n < 10 THEN <<CHOOSE d \in Digit : DigitVal(d) = n>>
             ELSE Digits(n \div 10) \o <<CHOOSE d \in Digit : DigitVal(d) = n % 10>>

MkLine(name, n) == <<name, "=">> \o Digits(n) \o <<"\n">>

\* an info dump that reports every field that is not 0
MkDump(i) ==
  (IF i.Width # 0 THEN MkLine("width", i.Width) ELSE <<>>)
  \o (IF i.Height # 0 THEN MkLine("height", i.Height) ELSE <<>>)
  \o (IF i.Rotation # 0 THEN MkLine("rotation", i.Rotation) ELSE <<>>)
  \o (IF i.Tiles # 0 THEN MkLine("tiles", i.Tiles) ELSE <<>>)
  \o (IF i.Rows # 0 THEN MkLine("rows", i.Rows) ELSE <<>>)
  \o (IF i.Cols # 0 THEN MkLine("cols", i.Cols) ELSE <<>>)

\* the canvas extents: one and two tiles of extent 2, two and four of extent 1
CanvasDims == {2, 4}

RotationValues == {0, 90}

TilesValues == {1, MaxTiles}

RowsValues == {0, 2}

ColsValues == {0, 1, 2}

\* the info dumps of the runs of the whole program
PipelineDumps ==
  {MkDump(HeifInfo(w, h, rot, t, r, c)) :
     w \in CanvasDims, h \in CanvasDims, rot \in RotationValues,
     t \in TilesValues, r \in RowsValues, c \in ColsValues}

\* the lines of the info dumps of the resolver's own runs: recognised ones,
\* an unknown name, and malformed ones
GoodLines ==
  {MkLine("width", 1), MkLine("height", 1), MkLine("tiles", 1), MkLine("tiles", 2),
   MkLine("cols", 2),
   <<"rows", "=", " ", "2", "\r", "\n">>,
   <<"rotation", "=", "-", "9", "0", "\n">>}

JunkLines ==
  {MkLine("depth", 2),
   <<"cols", "\n">>,
   <<"cols", "=", "\n">>,
   <<"tiles", "=", "x", "\n">>,
   <<"rows", "=", "2", "=", "\n">>,
   <<" ", "cols", "=", "2", "\n">>,
   <<"width", "=", "2", "1", "4", "7", "4", "8", "3", "6", "4", "8", "\n">>}

RECURSIVE Concat(_)
Concat(ls) == IF ls = <<>> THEN <<>> ELSE Head(ls) \o Concat(Tail(ls))

\* a line without its terminating newline
Unterminated(line) == SubSeq(line, 1, Len(line) - 1)

ResolverDumps ==
  LET L == GoodLines \cup JunkLines
      Seqs == UNION {[1..k -> L] : k \in 0..MaxLines}
  IN {Concat(ls) : ls \in Seqs}
     \cup {Concat(ls) \o Unterminated(l) : ls \in UNION {[1..k -> L] : k \in 0..(MaxLines - 1)}, l \in L}

\* the outcomes of hevc2Image: an error, or an image of some size
\* (a wide, a tall and a square tile)
TileSizes == {<<2, 1>>, <<1, 2>>, <<2, 2>>}

NotDecoded == [st |-> "none", w |-> 0, h |-> 0]

Failed == [st |-> "fail", w |-> 0, h |-> 0]

Decoded(w, h) == [st |-> "ok", w |-> w, h |-> h]

Outcomes == {Failed} \cup {Decoded(s[1], s[2]) : s \in TileSizes}

Exts == {".png", ".jpg", ".jpeg", ".bmp", ".PNG", ""}

Workers == 1..MaxThreads

\* -------------------------------------------------------------- the state
VARIABLES
  pc,           \* where main is
  threads,      \* argv.threads
  stdout,       \* the info dump of `heif2hevc -info` (dropped when the resolver stage is over)
  rd,           \* what the bufio.Reader has not yet handed out
  info,         \* the HeifInfo
  hevcFiles,    \* the tile files, in the order filepath.Glob lists them
  tmpFiles,     \* the tile files that exist on disk
  queue,        \* the buffered channel's content
  qcap,         \* its capacity
  closed,       \* whether it is closed
  i,            \* the loop counter of the queue population loop
  t,            \* the loop counter of the worker start loop
  wg,           \* the WaitGroup counter
  wpc,          \* where each worker goroutine is
  wf,           \* the QueueItem a worker holds
  wimg,         \* the image a worker decoded
  wlost,        \* the points of a worker's rectangle that a concurrent draw wrote
  processError, \* 0 for nil, else the file whose decode error it holds
  dstImg,       \* the canvas
  decoded,      \* per file: the outcome of its last decode
  decodeCount,  \* per file: the number of hevc2Image calls
  joinImg,      \* the canvas as wg.Wait left it
  encImg,       \* the raster handed to the encoder
  dst,          \* the destination file
  stderr        \* the messages printed

vars == <<pc, threads, stdout, rd, info, hevcFiles, tmpFiles, queue, qcap, closed, i, t, wg,
          wpc, wf, wimg, wlost, processError, dstImg, decoded, decodeCount, joinImg,
          encImg, dst, stderr>>

NoItem == [hevcFile |-> 0, x |-> 0, y |-> 0]

\* the destination: whether it exists, its extension as main read it, what
\* an encoder wrote to it ("none", "png", "jpeg", "partial") and from which raster
NoFile == [exists |-> FALSE, ext |-> "", bytes |-> "none", img |-> NoCanvas]

\* nothing has run yet beyond the resolver stage
Fresh ==
  /\ rd = <<>>
  /\ hevcFiles = <<>>
  /\ tmpFiles = {}
  /\ queue = <<>>
  /\ qcap = 0
  /\ closed = FALSE
  /\ i = 0
  /\ t = 0
  /\ wg = 0
  /\ wpc = [w \in Workers |-> "none"]
  /\ wf = [w \in Workers |-> NoItem]
  /\ wimg = [w \in Workers |-> NoImg]
  /\ wlost = [w \in Workers |-> {}]
  /\ processError = 0
  /\ dstImg = NoCanvas
  /\ decoded = <<>>
  /\ decodeCount = <<>>
  /\ joinImg = NoCanvas
  /\ encImg = NoCanvas
  /\ dst = NoFile
  /\ stderr = {}

InitWith(dumps, pools) ==
  /\ pc = "getinfo"
  /\ threads \in pools
  /\ stdout \in dumps
  /\ info = ZeroInfo
  /\ Fresh

Init == InitWith(PipelineDumps, 0..MaxThreads)

\* (the pool size is the flag's default)
InitResolver == InitWith(ResolverDumps, {1})

\* ------------------------------------------------------------------ main
\* heifGetInfo, lines 198-207: run `heif2hevc -info`; main panics on its error
GetInfoExec ==
  /\ pc = "getinfo"
  /\ \E ok \in BOOLEAN :
       IF ok
       THEN /\ rd' = stdout
            /\ pc' = "readline"
            /\ UNCHANGED stderr
       ELSE /\ stderr' = stderr \cup {"heif2hevc -info fail"}
            /\ pc' = "unwind"
            /\ UNCHANGED rd
  /\ UNCHANGED <<threads, stdout, info, hevcFiles, tmpFiles, queue, qcap, closed, i, t, wg,
                 wpc, wf, wimg, wlost, processError, dstImg, decoded, decodeCount,
                 joinImg, encImg, dst>>

\* heifGetInfo, lines 219-238: rd.ReadBytes('\n') and one turn of the loop; a
\* rest without a newline comes with io.EOF and ends the loop unparsed
ReadLine ==
  /\ pc = "readline"
  /\ LET pos == IndexByte(rd, "\n")
     IN IF pos = 0
        THEN /\ rd' = <<>>
             /\ pc' = "fixup"
             /\ UNCHANGED info
        ELSE /\ info' = ApplyLine(info, SubSeq(rd, 1, pos))
             /\ rd' = SubSeq(rd, pos + 1, Len(rd))
             /\ UNCHANGED pc
  /\ UNCHANGED <<threads, stdout, hevcFiles, tmpFiles, queue, qcap, closed, i, t, wg,
                 wpc, wf, wimg, wlost, processError, dstImg, decoded, decodeCount,
                 joinImg, encImg, dst, stderr>>

\* main, lines 106-109
Fixup ==
  /\ pc = "fixup"
  /\ info' = FixupInfo(info)
  /\ pc' = "extract"
  /\ UNCHANGED <<threads, stdout, rd, hevcFiles, tmpFiles, queue, qcap, closed, i, t, wg,
                 wpc, wf, wimg, wlost, processError, dstImg, decoded, decodeCount,
                 joinImg, encImg, dst, stderr>>

\* the file list of a failed extraction returned as nil
ExtractNilOnError ==
  /\ pc = "extract"
  /\ \E n \in 0..MaxTiles, ok \in BOOLEAN :
       /\ hevcFiles' = IF ok THEN [k \in 1..n |-> k] ELSE <<>>
       /\ tmpFiles' = 1..n
       /\ decoded' = [k \in 1..(IF ok THEN n ELSE 0) |-> NotDecoded]
       /\ decodeCount' = [k \in 1..(IF ok THEN n ELSE 0) |-> 0]
       /\ stdout' = <<>>
       /\ IF ok
          THEN pc' = "makequeue" /\ UNCHANGED stderr
          ELSE pc' = "unwind" /\ stderr' = stderr \cup {"heif2hevc fail"}
  /\ UNCHANGED <<threads, rd, info, queue, qcap, closed, i, t, wg,
                 wpc, wf, wimg, wlost, processError, dstImg, joinImg, encImg, dst>>

\* heif2hevc, lines 244-257, and main, lines 112-122: the tool leaves n tile
\* files, the deferred Glob lists them whether or not the tool failed, and
\* main panics on the tool's error after registering the removal.  The info
\* dump is not looked at from here on.
Extract ==
  /\ pc = "extract"
  /\ \E n \in 0..MaxTiles, ok \in BOOLEAN :
       /\ hevcFiles' = [k \in 1..n |-> k]
       /\ tmpFiles' = 1..n
       /\ decoded' = [k \in 1..n |-> NotDecoded]
       /\ decodeCount' = [k \in 1..n |-> 0]
       /\ stdout' = <<>>
       /\ IF ok
          THEN pc' = "makequeue" /\ UNCHANGED stderr
          ELSE pc' = "unwind" /\ stderr' = stderr \cup {"heif2hevc fail"}
  /\ UNCHANGED <<threads, rd, info, queue, qcap, closed, i, t, wg,
                 wpc, wf, wimg, wlost, processError, dstImg, joinImg, encImg, dst>>

\* line 129
MakeQueue ==
  /\ pc = "makequeue"
  /\ qcap' = Len(hevcFiles)
  /\ queue' = <<>>
  /\ i' = 0
  /\ pc' = "populate"
  /\ UNCHANGED <<threads, stdout, rd, info, hevcFiles, tmpFiles, closed, t, wg,
                 wpc, wf, wimg, wlost, processError, dstImg, decoded, decodeCount,
                 joinImg, encImg, dst, stderr>>

\* lines 130-136: one turn of the loop; the send blocks while the buffer is
\* full, and i % 0 is a run-time panic
Populate ==
  /\ pc = "populate"
  /\ IF i >= Len(hevcFiles)
     THEN pc' = "close" /\ UNCHANGED <<queue, i>>
     ELSE IF info.Cols = 0
     THEN pc' = "unwind" /\ UNCHANGED <<queue, i>>
     ELSE /\ Len(queue) < qcap
          /\ queue' = Append(queue, QueueItem(hevcFiles[i + 1], i, info.Cols))
          /\ i' = i + 1
          /\ UNCHANGED pc
  /\ UNCHANGED <<threads, stdout, rd, info, hevcFiles, tmpFiles, qcap, closed, t, wg,
                 wpc, wf, wimg, wlost, processError, dstImg, decoded, decodeCount,
                 joinImg, encImg, dst, stderr>>

\* the channel left open
CloseQueueForgotten ==
  /\ pc = "close"
  /\ closed' = FALSE
  /\ processError' = 0
  /\ dstImg' = NewRGBA(info.Width, info.Height)
  /\ t' = 0
  /\ pc' = "spawn"
  /\ UNCHANGED <<threads, stdout, rd, info, hevcFiles, tmpFiles, queue, qcap, i, wg,
                 wpc, wf, wimg, wlost, decoded, decodeCount, joinImg, encImg, dst, stderr>>

\* lines 137-143: close(queue) and the declarations
CloseQueue ==
  /\ pc = "close"
  /\ closed' = TRUE
  /\ processError' = 0
  /\ dstImg' = NewRGBA(info.Width, info.Height)
  /\ t' = 0
  /\ pc' = "spawn"
  /\ UNCHANGED <<threads, stdout, rd, info, hevcFiles, tmpFiles, queue, qcap, i, wg,
                 wpc, wf, wimg, wlost, decoded, decodeCount, joinImg, encImg, dst, stderr>>

\* lines 146-164: one turn of the start loop (wg.Add(1); go func), or its end
Spawn ==
  /\ pc = "spawn"
  /\ IF t < threads
     THEN /\ wg' = wg + 1
          /\ wpc' = [wpc EXCEPT ![t + 1] = "recv"]
          /\ t' = t + 1
          /\ UNCHANGED pc
     ELSE /\ pc' = "wait"
          /\ UNCHANGED <<wg, wpc, t>>
  /\ UNCHANGED <<threads, stdout, rd, info, hevcFiles, tmpFiles, queue, qcap, closed, i,
                 wf, wimg, wlost, processError, dstImg, decoded, decodeCount,
                 joinImg, encImg, dst, stderr>>

\* line 165: wg.Wait() returns when the counter is 0
Wait ==
  /\ pc = "wait"
  /\ wg = 0
  /\ joinImg' = dstImg
  /\ pc' = "rotate"
  /\ UNCHANGED <<threads, stdout, rd, info, hevcFiles, tmpFiles, queue, qcap, closed, i, t, wg,
                 wpc, wf, wimg, wlost, processError, dstImg, decoded, decodeCount,
                 encImg, dst, stderr>>

\* lines 168-170
Rotate ==
  /\ pc = "rotate"
  /\ dstImg' = RotateStage(dstImg, info.Rotation)
  /\ pc' = "create"
  /\ UNCHANGED <<threads, stdout, rd, info, hevcFiles, tmpFiles, queue, qcap, closed, i, t, wg,
                 wpc, wf, wimg, wlost, processError, decoded, decodeCount,
                 joinImg, encImg, dst, stderr>>

\* lines 173-176: os.Create(dstFile) creates or truncates the destination;
\* the extension of dstFile is looked at only after it
Create ==
  /\ pc = "create"
  /\ \E ext \in Exts, ok \in BOOLEAN :
       IF ok
       THEN /\ dst' = [exists |-> TRUE, ext |-> ext, bytes |-> "none", img |-> NoCanvas]
            /\ pc' = "encode"
            /\ UNCHANGED stderr
       ELSE /\ stderr' = stderr \cup {"Cannot create dst file"}
            /\ dst' = [dst EXCEPT !.ext = ext]
            /\ pc' = "return"
  /\ UNCHANGED <<threads, stdout, rd, info, hevcFiles, tmpFiles, queue, qcap, closed, i, t, wg,
                 wpc, wf, wimg, wlost, processError, dstImg, decoded, decodeCount,
                 joinImg, encImg>>

\* lines 177-194: the switch on the extension, the encoder's call, fd.Close()
Encode ==
  /\ pc = "encode"
  /\ LET enc == EncoderFor(dst.ext)
     IN IF enc = "none"
        THEN /\ stderr' = stderr \cup {"Unsupported dst file extension"}
             /\ UNCHANGED <<dst, encImg>>
        ELSE /\ encImg' = dstImg
             /\ \E ok \in BOOLEAN :
                  IF ok
                  THEN /\ dst' = [dst EXCEPT !.bytes = enc, !.img = dstImg]
                       /\ UNCHANGED stderr
                  ELSE /\ dst' = [dst EXCEPT !.bytes = "partial"]
                       /\ stderr' = stderr \cup {"Cannot write dst file"}
  /\ pc' = "return"
  /\ UNCHANGED <<threads, stdout, rd, info, hevcFiles, tmpFiles, queue, qcap, closed, i, t, wg,
                 wpc, wf, wimg, wlost, processError, dstImg, decoded, decodeCount, joinImg>>

\* lines 113-119: the deferred removal, registered when hevcFiles is not nil
Deferred == IF hevcFiles # <<>> THEN tmpFiles \ Range(hevcFiles) ELSE tmpFiles

\* main returns: the deferred function runs and the process exits with status 0
MainReturn ==
  /\ pc = "return"
  /\ tmpFiles' = Deferred
  /\ pc' = "done"
  /\ UNCHANGED <<threads, stdout, rd, info, hevcFiles, queue, qcap, closed, i, t, wg,
                 wpc, wf, wimg, wlost, processError, dstImg, decoded, decodeCount,
                 joinImg, encImg, dst, stderr>>

\* a panic of main unwinds: the deferred function runs and the process dies
PanicUnwind ==
  /\ pc = "unwind"
  /\ tmpFiles' = Deferred
  /\ pc' = "panic"
  /\ UNCHANGED <<threads, stdout, rd, info, hevcFiles, queue, qcap, closed, i, t, wg,
                 wpc, wf, wimg, wlost, processError, dstImg, decoded, decodeCount,
                 joinImg, encImg, dst, stderr>>

\* ------------------------------------------------------------- the workers
\* line 150: `for f := range queue` takes the next item, or ends on a closed
\* and drained channel, and then line 162: wg.Done()
WRecv(w) ==
  /\ wpc[w] = "recv"
  /\ IF queue # <<>>
     THEN /\ wf' = [wf EXCEPT ![w] = Head(queue)]
          /\ queue' = Tail(queue)
          /\ wpc' = [wpc EXCEPT ![w] = "decode"]
          /\ UNCHANGED wg
     ELSE /\ closed
          /\ wpc' = [wpc EXCEPT ![w] = "done"]
          /\ wg' = wg - 1
          /\ UNCHANGED <<wf, queue>>
  /\ UNCHANGED <<pc, threads, stdout, rd, info, hevcFiles, tmpFiles, qcap, closed, i, t,
                 wimg, wlost, processError, dstImg, decoded, decodeCount,
                 joinImg, encImg, dst, stderr>>

\* a worker that leaves its loop on the first decode error
WDecodeAbort(w) ==
  /\ wpc[w] = "decode"
  /\ LET f == wf[w].hevcFile
     IN /\ decodeCount' = [decodeCount EXCEPT ![f] = @ + 1]
        /\ \E o \in Outcomes :
             /\ decoded' = [decoded EXCEPT ![f] = o]
             /\ IF o.st = "fail"
                THEN /\ processError' = f
                     /\ stderr' = stderr \cup {"ffmpeg fail"}
                     /\ wpc' = [wpc EXCEPT ![w] = "done"]
                     /\ wg' = wg - 1
                     /\ wf' = [wf EXCEPT ![w] = NoItem]
                     /\ UNCHANGED <<wimg, wlost>>
                ELSE /\ wimg' = [wimg EXCEPT ![w] = [w |-> o.w, h |-> o.h, tile |-> f]]
                     /\ wlost' = [wlost EXCEPT ![w] = {}]
                     /\ wpc' = [wpc EXCEPT ![w] = "draw"]
                     /\ UNCHANGED <<processError, stderr, wf, wg>>
  /\ UNCHANGED <<pc, threads, stdout, rd, info, hevcFiles, tmpFiles, queue, qcap, closed, i, t,
                 dstImg, joinImg, encImg, dst>>

\* the error of every decode assigned, the nil of a success too
WDecodeAssignAlways(w) ==
  /\ wpc[w] = "decode"
  /\ LET f == wf[w].hevcFile
     IN /\ decodeCount' = [decodeCount EXCEPT ![f] = @ + 1]
        /\ \E o \in Outcomes :
             /\ decoded' = [decoded EXCEPT ![f] = o]
             /\ IF o.st = "fail"
                THEN /\ processError' = f
                     /\ stderr' = stderr \cup {"ffmpeg fail"}
                     /\ wpc' = [wpc EXCEPT ![w] = "recv"]
                     /\ wf' = [wf EXCEPT ![w] = NoItem]
                     /\ UNCHANGED <<wimg, wlost>>
                ELSE /\ processError' = 0
                     /\ wimg' = [wimg EXCEPT ![w] = [w |-> o.w, h |-> o.h, tile |-> f]]
                     /\ wlost' = [wlost EXCEPT ![w] = {}]
                     /\ wpc' = [wpc EXCEPT ![w] = "draw"]
                     /\ UNCHANGED <<stderr, wf>>
  /\ UNCHANGED <<pc, threads, stdout, rd, info, hevcFiles, tmpFiles, queue, qcap, closed, i, t,
                 wg, dstImg, joinImg, encImg, dst>>

\* a failed decode drawn all the same, as a tile of one pixel
WDecodeDrawsFailed(w) ==
  /\ wpc[w] = "decode"
  /\ LET f == wf[w].hevcFile
     IN /\ decodeCount' = [decodeCount EXCEPT ![f] = @ + 1]
        /\ \E o \in Outcomes :
             /\ decoded' = [decoded EXCEPT ![f] = o]
             /\ IF o.st = "fail"
                THEN /\ processError' = f
                     /\ stderr' = stderr \cup {"ffmpeg fail"}
                     /\ wimg' = [wimg EXCEPT ![w] = [w |-> 1, h |-> 1, tile |-> f]]
                     /\ wlost' = [wlost EXCEPT ![w] = {}]
                     /\ wpc' = [wpc EXCEPT ![w] = "draw"]
                     /\ UNCHANGED wf
                ELSE /\ wimg' = [wimg EXCEPT ![w] = [w |-> o.w, h |-> o.h, tile |-> f]]
                     /\ wlost' = [wlost EXCEPT ![w] = {}]
                     /\ wpc' = [wpc EXCEPT ![w] = "draw"]
                     /\ UNCHANGED <<processError, stderr, wf>>
  /\ UNCHANGED <<pc, threads, stdout, rd, info, hevcFiles, tmpFiles, queue, qcap, closed, i, t,
                 wg, dstImg, joinImg, encImg, dst>>

\* lines 151-153: hevc2Image(f.hevcFile) fails, or returns an image
WDecode(w) ==
  /\ wpc[w] = "decode"
  /\ LET f == wf[w].hevcFile
     IN /\ decodeCount' = [decodeCount EXCEPT ![f] = @ + 1]
        /\ \E o \in Outcomes :
             /\ decoded' = [decoded EXCEPT ![f] = o]
             /\ IF o.st = "fail"
                THEN /\ processError' = f
                     /\ stderr' = stderr \cup {"ffmpeg fail"}
                     /\ wpc' = [wpc EXCEPT ![w] = "recv"]
                     /\ wf' = [wf EXCEPT ![w] = NoItem]
                     /\ UNCHANGED <<wimg, wlost>>
                ELSE /\ wimg' = [wimg EXCEPT ![w] = [w |-> o.w, h |-> o.h, tile |-> f]]
                     /\ wlost' = [wlost EXCEPT ![w] = {}]
                     /\ wpc' = [wpc EXCEPT ![w] = "draw"]
                     /\ UNCHANGED <<processError, stderr, wf>>
  /\ UNCHANGED <<pc, threads, stdout, rd, info, hevcFiles, tmpFiles, queue, qcap, closed, i, t,
                 wg, dstImg, joinImg, encImg, dst>>

\* lines 154-159: the draw of one worker.  Two draws that run at the same
\* time on overlapping rectangles race: each common point ends with either
\* worker's pixel, so the later of the two to finish may have lost any of them
WDraw(w) ==
  /\ wpc[w] = "draw"
  /\ LET rect == DestRect(wf[w], wimg[w])
         pts == RectPoints(dstImg, rect)
     IN /\ \E lost \in SUBSET wlost[w] : dstImg' = DrawSrc(dstImg, rect, wimg[w], lost)
        /\ wlost' = [u \in Workers |->
                       IF u # w /\ wpc[u] = "draw"
                       THEN wlost[u] \cup (pts \cap RectPoints(dstImg, DestRect(wf[u], wimg[u])))
                       ELSE IF u = w THEN {} ELSE wlost[u]]
  /\ wpc' = [wpc EXCEPT ![w] = "recv"]
  /\ wf' = [wf EXCEPT ![w] = NoItem]
  /\ wimg' = [wimg EXCEPT ![w] = NoImg]
  /\ UNCHANGED <<pc, threads, stdout, rd, info, hevcFiles, tmpFiles, queue, qcap, closed, i, t,
                 wg, processError, decoded, decodeCount, joinImg, encImg, dst, stderr>>

Worker(w) == WRecv(w) \/ WDecode(w) \/ WDraw(w)

\* main from line 111 on
MainAssembly ==
  \/ Extract \/ MakeQueue \/ Populate \/ CloseQueue
  \/ Spawn \/ Wait \/ Rotate \/ Create \/ Encode \/ MainReturn \/ PanicUnwind

Main == GetInfoExec \/ ReadLine \/ Fixup \/ MainAssembly

Next == Main \/ \E w \in Workers : Worker(w)

Spec == Init /\ [][Next]_vars

\* the whole dump through the line loop of heifGetInfo
RECURSIVE ParseDump(_, _)
ParseDump(inf, text) ==
  LET pos == IndexByte(text, "\n")
  IN IF pos = 0 THEN inf
     ELSE ParseDump(ApplyLine(inf, SubSeq(text, 1, pos)), SubSeq(text, pos + 1, Len(text)))

\* The program from line 111 on, for the runs on the smallest canvas without
\* rotation: main is about to extract the tiles, the descriptor is the one
\* resolved from the dump.  The Go scheduler runs every goroutine that can
\* take a step, and the external tools return.
AssemblyDumps ==
  {MkDump(HeifInfo(2, 2, 0, tl, 0, c)) : tl \in TilesValues, c \in ColsValues}

InitAssembly ==
  /\ pc = "extract"
  /\ threads \in 0..MaxThreads
  /\ stdout \in AssemblyDumps
  /\ info = FixupInfo(ParseDump(ZeroInfo, stdout))
  /\ Fresh

NextAssembly == MainAssembly \/ \E w \in Workers : Worker(w)

FairSpec ==
  /\ InitAssembly
  /\ [][NextAssembly]_vars
  /\ WF_vars(MainAssembly)
  /\ \A w \in Workers : WF_vars(Worker(w))

\* the metadata resolver on its own, over a wider family of info dumps
NextResolver == GetInfoExec \/ ReadLine \/ Fixup \/ PanicUnwind

SpecResolver == InitResolver /\ [][NextResolver]_vars

\* ------------------------------------------------------------ the claims
Files == 1..Len(hevcFiles)

\* wg.Wait() has returned
Joined == pc \in {"rotate", "create", "encode", "return", "done"}

\* the Rotate step has been taken
PastRotate == pc \in {"create", "encode", "return", "done"}

AnyDecodeFailed == \E f \in Files : decoded[f].st = "fail"

\* C1: if the decode of at least one tile fails, the run ends in an error
\* outcome after the join: it does not rotate, it creates and writes no
\* destination, it hands no raster to an encoder, and it does not end as a
\* successful run.
C1_DecodeFailureFailsRun ==
  AnyDecodeFailed =>
    /\ ~PastRotate
    /\ ~dst.exists
    /\ encImg = NoCanvas

\* the files all decoded, and all to w x h
AllDecodedTo(w, h) == \A f \in Files : decoded[f] = Decoded(w, h)

\* the run is one of a full grid of info.Cols columns and rows rows of w x h
\* tiles on a canvas of their joint size
FullGrid(rows, w, h) ==
  /\ info.Cols >= 1
  /\ rows >= 1
  /\ Len(hevcFiles) = rows * info.Cols
  /\ AllDecodedTo(w, h)
  /\ info.Width = info.Cols * w
  /\ info.Height = rows * h

\* C2: for a grid of R rows and C columns whose tiles all decoded to w x h,
\* on a canvas of C*w x R*h, after the join the block (r, c) of the canvas is
\* the bitmap of the job with index r*C + c, point for point.
C2_BlocksHoldTiles ==
  pc = "rotate" =>
    \A s \in TileSizes, R \in 1..MaxTiles :
      FullGrid(R, s[1], s[2]) =>
        \A r \in 0..(R - 1), c \in 0..(info.Cols - 1), px \in 0..(s[1] - 1), py \in 0..(s[2] - 1) :
          dstImg.pix[<<c * s[1] + px, r * s[2] + py>>]
            = <<hevcFiles[r * info.Cols + c + 1], px, py>>

C2_Witness ==
  /\ pc = "rotate"
  /\ threads = 2
  /\ info.Cols = 2
  /\ FullGrid(2, 2, 1)
  /\ dstImg.pix[<<2, 1>>] = <<4, 0, 0>>

\* the canvas a single worker leaves: the jobs in queue order, each drawn
\* whole if its decode succeeded
RECURSIVE DrawInOrder(_, _)
DrawInOrder(canvas, k) ==
  IF k > Len(hevcFiles) THEN canvas
  ELSE LET f == hevcFiles[k]
           o == decoded[f]
           img == [w |-> o.w, h |-> o.h, tile |-> f]
           next == IF o.st = "ok"
                   THEN DrawSrc(canvas, DestRect(QueueItem(f, k - 1, info.Cols), img), img, {})
                   ELSE canvas
       IN DrawInOrder(next, k + 1)

SequentialCanvas == DrawInOrder(NewRGBA(info.Width, info.Height), 1)

\* the images that were decoded all have one size
UniformTiles ==
  \A f, g \in Files :
    decoded[f].st = "ok" /\ decoded[g].st = "ok" => decoded[f] = decoded[g]

\* C3 as stated: with at least one worker, the canvas after the join is the
\* one a single worker leaves for the same descriptor and the same tiles,
\* whatever the pool size and the order of the workers' steps.
C3_CanvasOfAnySchedule ==
  (pc = "rotate" /\ threads >= 1) => dstImg = SequentialCanvas

\* C3, amended: when the decoded tiles all have one size, the canvas after
\* the join is the one a single worker leaves, whatever the pool size (>= 1)
\* and the order of the workers' steps.
C3_CanvasOfAnyScheduleUniform ==
  (pc = "rotate" /\ threads >= 1 /\ UniformTiles) => dstImg = SequentialCanvas

C3_Witness ==
  /\ pc = "rotate"
  /\ threads = 2
  /\ Len(hevcFiles) = 3
  /\ info.Cols = 2
  /\ decoded[1] = Decoded(2, 2) /\ decoded[2] = Failed /\ decoded[3] = Decoded(2, 2)
  /\ processError = 2
  /\ dstImg = SequentialCanvas

\* the number of places a job is at: in the channel, or held by a worker
\* that has not yet called hevc2Image on it
InQueue(f) == Cardinality({k \in 1..Len(queue) : queue[k].hevcFile = f})

Held(f) == Cardinality({w \in Workers : wpc[w] = "decode" /\ wf[w].hevcFile = f})

\* C4: every job placed on the queue is popped by exactly one worker and
\* decoded exactly once, for every pool size >= 1, also when decodes fail:
\* no file is ever decoded twice, a queued job is at any time in the channel,
\* with one worker, or decoded once, and after the join every file has been
\* decoded once.
C4_EachJobDecodedOnce ==
  \A f \in Files :
    /\ decodeCount[f] <= 1
    /\ closed => InQueue(f) + Held(f) + decodeCount[f] = 1
    /\ (Joined /\ threads >= 1) => decodeCount[f] = 1

C4_Witness ==
  /\ pc = "rotate"
  /\ threads = 2
  /\ Len(hevcFiles) = 4
  /\ decoded[2] = Failed
  /\ decoded[1].st = "ok" /\ decoded[3].st = "ok" /\ decoded[4].st = "ok"
  /\ \A f \in Files : decodeCount[f] = 1

\* the destination's extension has been looked at
PastCreate == pc \in {"encode", "return", "done"}

\* C5: when the destination's extension is none of .png, .jpg, .jpeg
\* (whatever its case), no destination file is created, no bytes are
\* written to it, and the run reports the unsupported format.
C5_UnsupportedCreatesNothing ==
  (PastCreate /\ EncoderFor(dst.ext) = "none") =>
    /\ ~dst.exists
    /\ dst.bytes = "none"
    /\ pc \in {"return", "done"} => "Unsupported dst file extension" \in stderr

\* C7: in every state where the rotation or the encoder reads the canvas,
\* all workers have exited and every queued job has been fully processed.
C7_ReadersAfterAllWork ==
  Joined =>
    /\ \A w \in Workers : wpc[w] \in {"none", "done"}
    /\ queue = <<>>
    /\ \A f \in Files : decodeCount[f] = 1

\* C8: whenever the resolved metadata has tiles = 1, the descriptor the jobs
\* are built with has rows = 1 and cols = 1, whatever the dump reported, and
\* every job is in column 0.
C8_SingleTileGrid ==
  (pc \notin {"getinfo", "readline", "fixup"} /\ info.Tiles = 1) =>
    /\ info.Rows = 1
    /\ info.Cols = 1
    /\ \A k \in 1..Len(queue) : queue[k].x = 0

C8_Witness ==
  /\ pc = "extract"
  /\ info.Tiles = 1 /\ info.Rows = 1 /\ info.Cols = 1
  /\ ParseDump(ZeroInfo, stdout).Rows = 2
  /\ ParseDump(ZeroInfo, stdout).Cols = 2

\* C10: when the rotation is 0 the rotation stage leaves the canvas as the
\* join left it, and that canvas is the raster handed to the encoder.
C10_NoRotationIsIdentity ==
  info.Rotation = 0 =>
    /\ PastRotate => dstImg = joinImg
    /\ (pc \in {"return", "done"} /\ dst.bytes # "none") => encImg = joinImg

C10_Witness ==
  /\ pc = "done"
  /\ info.Rotation = 0
  /\ info.Width = 4 /\ info.Height = 2
  /\ dst.bytes = "png"
  /\ encImg = joinImg
  /\ joinImg.pix[<<2, 0>>] = <<2, 0, 0>>

\* C6: assembly always terminates.  The channel never holds more than its
\* capacity, which is the job count, so no send of the population loop
\* blocks; it is closed before any worker runs; and once the channel is
\* closed, for every pool size and every number of jobs, every worker that
\* was started exits and wg.Wait() returns.
C6_AssemblyTerminates ==
  /\ [](Len(queue) <= qcap)
  /\ []((pc = "populate" /\ i < Len(hevcFiles)) => Len(queue) < qcap)
  /\ []((\E w \in Workers : wpc[w] # "none") => closed)
  /\ (pc = "spawn") ~> (pc = "rotate" /\ \A w \in 1..threads : wpc[w] = "done")

C6_Witness ==
  /\ pc = "rotate"
  /\ threads = 2
  /\ qcap = 3
  /\ closed
  /\ queue = <<>>
  /\ wpc[1] = "done" /\ wpc[2] = "done"
  /\ \A f \in Files : decodeCount[f] = 1

\* the lines of a text: each with its newline, the rest without one last
RECURSIVE LinesOf(_)
LinesOf(text) ==
  IF text = <<>> THEN <<>>
  ELSE IF "\n" \notin Range(text) THEN <<text>>
  ELSE LET pos == CHOOSE k \in 1..Len(text) : text[k] = "\n" /\ \A j \in 1..(k - 1) : text[j] # "\n"
       IN <<SubSeq(text, 1, pos)>> \o LinesOf(SubSeq(text, pos + 1, Len(text)))

FieldNames == {"width", "height", "rotation", "tiles", "rows", "cols"}

FieldOf(inf, n) ==
  CASE n = "width" -> inf.Width [] n = "height" -> inf.Height
    [] n = "rotation" -> inf.Rotation [] n = "tiles" -> inf.Tiles
    [] n = "rows" -> inf.Rows [] n = "cols" -> inf.Cols

EqAt(line) == {k \in 1..Len(line) : line[k] = "="}

FirstEq(line) == CHOOSE k \in EqAt(line) : \A j \in EqAt(line) : k <= j

NameText(line) == SubSeq(line, 1, FirstEq(line) - 1)

ValueText(line) == SubSeq(line, FirstEq(line) + 1, Len(line))

\* white space, an optional sign and one or more decimal digits, white space
IsDecimal(text) ==
  \E lo, hi \in 1..Len(text) :
    /\ lo <= hi
    /\ \A k \in 1..Len(text) : (k < lo \/ k > hi) => text[k] \in Space
    /\ LET core == SubSeq(text, lo, hi)
           body == IF core[1] \in {"+", "-"} THEN Tail(core) ELSE core
       IN body # <<>> /\ \A k \in 1..Len(body) : body[k] \in Digit

Malformed(line) == EqAt(line) = {} \/ ~IsDecimal(ValueText(line))

Unrecognised(line) == EqAt(line) # {} /\ NameText(line) \notin {<<n>> : n \in FieldNames}

Ignorable(line) == Malformed(line) \/ Unrecognised(line)

\* the dump without its unrecognised and malformed lines
Kept(text) ==
  LET ls == LinesOf(text)
      RECURSIVE Pick(_)
      Pick(k) == IF k > Len(ls) THEN <<>>
                 ELSE (IF Ignorable(ls[k]) THEN <<>> ELSE ls[k]) \o Pick(k + 1)
  IN Pick(1)

\* C9: unrecognised lines (unknown name) and malformed lines (no '=', or a
\* value that is no base-10 integer) never abort the resolver and change no
\* field: the descriptor heifGetInfo returns is the one it returns for the
\* dump without those lines, and a field that no recognised well-formed line
\* names is 0; the resolver fails only when the tool's run fails.
C9_IgnoredLinesChangeNothing ==
  /\ pc = "fixup" =>
       /\ info = ParseDump(ZeroInfo, Kept(stdout))
       /\ \A n \in FieldNames :
            (\A l \in Range(LinesOf(stdout)) : Ignorable(l) \/ NameText(l) # <<n>>)
              => FieldOf(info, n) = 0
  /\ pc \in {"unwind", "panic"} => "heif2hevc -info fail" \in stderr

C9_Witness ==
  /\ pc = "fixup"
  /\ stdout = MkLine("cols", 2) \o <<"cols", "=", "\n">> \o MkLine("depth", 2)
  /\ info = HeifInfo(0, 0, 0, 0, 0, 2)


\* the jobs form a grid of R rows and info.Cols columns (as the dump reports
\* it, or as the fixup sets it) and their tiles all decoded to w x h
UniformGrid(R, w, h) ==
  /\ info.Cols >= 1
  /\ info.Rows = R
  /\ Len(hevcFiles) = R * info.Cols
  /\ AllDecodedTo(w, h)

\* C11 as stated: for a grid of R rows and C columns of tiles that all
\* decoded to w x h, the assembled canvas has exactly C*w by R*h pixels.
C11_CanvasIsGridSized ==
  pc = "rotate" =>
    \A s \in TileSizes, R \in 1..MaxTiles :
      UniformGrid(R, s[1], s[2]) =>
        /\ dstImg.w = info.Cols * s[1]
        /\ dstImg.h = R * s[2]
        /\ DOMAIN dstImg.pix = Points(info.Cols * s[1], R * s[2])

\* C11, amended: the assembled canvas has exactly the descriptor's width by
\* height pixels, from its allocation to the join, whatever the grid and
\* the sizes of the tiles drawn into it.
C11_CanvasIsDescriptorSized ==
  pc \in {"spawn", "wait", "rotate"} =>
    /\ dstImg.w = info.Width
    /\ dstImg.h = info.Height
    /\ DOMAIN dstImg.pix = Points(info.Width, info.Height)

C11_Witness ==
  /\ pc = "rotate"
  /\ info.Width = 4 /\ info.Height = 2
  /\ UniformGrid(2, 2, 2)
  /\ info.Cols = 2
  /\ dstImg.w = 4 /\ dstImg.h = 2
  /\ dstImg.pix[<<3, 1>>] = <<2, 1, 1>>


\* C12: a failure of the metadata resolution, of the tile extraction, or of
\* the encoding (the destination cannot be created or written) aborts the
\* run at once with a fatal outcome: no stage after the failing one has
\* run, and the run does not end as a successful one.
C12_TopLevelFailureIsFatal ==
  /\ "heif2hevc -info fail" \in stderr =>
       /\ pc \in {"unwind", "panic"}
       /\ hevcFiles = <<>> /\ tmpFiles = {}
  /\ "heif2hevc fail" \in stderr =>
       /\ pc \in {"unwind", "panic"}
       /\ qcap = 0 /\ dstImg = NoCanvas
  /\ "Cannot create dst file" \in stderr =>
       /\ pc # "done"
       /\ encImg = NoCanvas /\ dst.bytes = "none"
  /\ "Cannot write dst file" \in stderr => pc # "done"

\* two rectangles have a point in common
Overlaps(a, b) ==
  /\ a.minx < b.maxx /\ b.minx < a.maxx
  /\ a.miny < b.maxy /\ b.miny < a.maxy

\* the rectangle the job of file f is drawn to when it decodes to w x h
\* (the file at position k of hevcFiles is the file k)
JobRect(f, w, h) ==
  DestRect(QueueItem(f, f - 1, info.Cols), [w |-> w, h |-> h, tile |-> f])

\* C13: the destination rectangles of two distinct jobs whose tiles decode
\* to the same w x h size are disjoint: no two workers are ever drawing
\* equally sized tiles to rectangles with a common point, and no two
\* decoded jobs of one size have rectangles with a common point.
C13_EqualTilesNeverOverlap ==
  /\ \A u, v \in Workers :
       (/\ u # v
        /\ wpc[u] = "draw" /\ wpc[v] = "draw"
        /\ wimg[u].w = wimg[v].w /\ wimg[u].h = wimg[v].h)
         => ~Overlaps(DestRect(wf[u], wimg[u]), DestRect(wf[v], wimg[v]))
  /\ \A f, g \in Files :
       (f # g /\ decoded[f].st = "ok" /\ decoded[g] = decoded[f])
         => ~Overlaps(JobRect(f, decoded[f].w, decoded[f].h),
                      JobRect(g, decoded[g].w, decoded[g].h))

C13_Witness ==
  /\ wpc[1] = "draw" /\ wpc[2] = "draw"
  /\ info.Cols = 2
  /\ wimg[1].w = 2 /\ wimg[1].h = 1
  /\ wimg[2].w = 2 /\ wimg[2].h = 1
  /\ wf[1].hevcFile = 4 /\ wf[2].hevcFile = 3
  /\ DestRect(wf[1], wimg[1]) = [minx |-> 2, miny |-> 1, maxx |-> 4, maxy |-> 2]
  /\ DestRect(wf[2], wimg[2]) = [minx |-> 0, miny |-> 1, maxx |-> 2, maxy |-> 2]

\* the start loop of the workers is over
PoolStarted == pc \in {"wait", "rotate", "create", "encode", "return", "done"}

\* C14: for every configured pool size at least one worker is started, and
\* every queued job has been popped and decoded when the join completes.
C14_PoolHasAWorker ==
  /\ PoolStarted => \E w \in Workers : wpc[w] # "none"
  /\ Joined => \A f \in Files : decodeCount[f] = 1

\* C15: whenever a job is built from a tile source, the descriptor's cols
\* is >= 1, so that index mod cols and index div cols are defined, for
\* every descriptor the resolver produces.
C15_ColsPositiveForJobs ==
  (pc = "populate" /\ i < Len(hevcFiles)) => info.Cols >= 1


\* C16: after the join the error slot is non-empty exactly when at least
\* one tile decode failed, and then it holds the error of one of the failed
\* jobs, for every pool size and every order of the writes to the slot.
C16_SlotHoldsAFailure ==
  Joined =>
    /\ processError # 0 <=> AnyDecodeFailed
    /\ processError # 0 => (processError \in Files /\ decoded[processError].st = "fail")

C16_Witness ==
  /\ pc = "rotate"
  /\ threads = 2
  /\ Len(hevcFiles) = 3
  /\ decoded[1] = Failed /\ decoded[2].st = "ok" /\ decoded[3] = Failed
  /\ processError = 1

\* the jobs that decoded and whose rectangle holds the point p
Covering(p) ==
  {f \in Files : decoded[f].st = "ok" /\ InRect(p, JobRect(f, decoded[f].w, decoded[f].h))}

\* the pixel the tile of job f has for the canvas point p
TilePixel(f, p) ==
  LET rect == JobRect(f, decoded[f].w, decoded[f].h)
  IN <<f, p[1] - rect.minx, p[2] - rect.miny>>

\* C17: a failed decode writes nothing to the canvas.  After the join a
\* point that the rectangle of no decoded job holds is transparent, and a
\* point that such rectangles hold has the pixel of one of these jobs'
\* tiles: the canvas is made of the decoded tiles alone.  With one worker
\* it is the canvas of the batch without the failed jobs, every other job
\* at its own index.
C17_FailedDecodeDrawsNothing ==
  pc = "rotate" =>
    /\ \A p \in DOMAIN dstImg.pix :
         IF Covering(p) = {} THEN dstImg.pix[p] = Transparent
         ELSE \E f \in Covering(p) : dstImg.pix[p] = TilePixel(f, p)
    /\ threads = 1 => dstImg = SequentialCanvas

C17_Witness ==
  /\ pc = "rotate"
  /\ info.Width = 4 /\ info.Height = 2 /\ info.Cols = 2
  /\ Len(hevcFiles) = 2
  /\ decoded[1] = Failed /\ decoded[2] = Decoded(2, 2)
  /\ \A p \in Points(2, 2) : dstImg.pix[p] = Transparent
  /\ dstImg.pix[<<2, 0>>] = <<2, 0, 0>> /\ dstImg.pix[<<3, 1>>] = <<2, 1, 1>>

\* the run is over: main has returned, or its panic has unwound
RunEnded == pc \in {"done", "panic"}

\* C18: every temporary tile file the extraction left is removed by the
\* time the run ends, after a normal return and after a panic alike.
C18_TempFilesRemoved ==
  RunEnded => tmpFiles = {}

C18_Witness ==
  /\ pc = "panic"
  /\ "heif2hevc fail" \in stderr
  /\ Len(hevcFiles) = 2
  /\ tmpFiles = {}

=============================================================================
